---- MODULE Spec2Model ----
(***************************************************************************)
(* Course advising program (main.cpp): the original variant (a binary      *)
(* search tree used for listing and for lookup) and the enhanced variant   *)
(* (a binary search tree for listing, a hash map for lookup, a            *)
(* prerequisite validation pass and a dataLoaded flag in the menu loop).   *)
(*                                                                         *)
(* A std::string is a sequence of one-character strings.  The tree is an   *)
(* arena: a sequence of nodes whose left/right fields are indexes into it, *)
(* 0 standing for nullptr; `new Node` appends to the arena.                *)
(***************************************************************************)
EXTENDS Integers, Sequences, FiniteSets

\* ------------------------------------------------------------------ bounds

\* most retained (non-empty) lines read over all loads of one run
MaxRecords == 3
\* most lines in one source file
MaxFileLines == 2

\* ----------------------------------------------------------------- strings

\* unsigned char values of the characters the inputs use
CharCode ==
    [c \in {" ", ",", "A", "B", "C", "D", "a", "b", "c", "d", "t", "u"} |->
        CASE c = " " -> 32 [] c = "," -> 44
          [] c = "A" -> 65 [] c = "B" -> 66 [] c = "C" -> 67 [] c = "D" -> 68
          [] c = "a" -> 97 [] c = "b" -> 98 [] c = "c" -> 99 [] c = "d" -> 100
          [] c = "t" -> 116 [] c = "u" -> 117]

Min(a, b) == IF a < b THEN a ELSE b

\* std::string operator< : lexicographic on character values, a proper
\* prefix being smaller
StrLess(a, b) ==
    \E k \in 1..(Min(Len(a), Len(b)) + 1) :
        /\ \A j \in 1..(k - 1) : a[j] = b[j]
        /\ \/ k > Len(a) /\ k <= Len(b)
           \/ k <= Len(a) /\ k <= Len(b) /\ CharCode[a[k]] < CharCode[b[k]]

\* ::toupper on one character
ToUpperChar(c) ==
    CASE c = "a" -> "A" [] c = "b" -> "B" [] c = "c" -> "C" [] c = "d" -> "D"
      [] c = "t" -> "T" [] c = "u" -> "U" [] OTHER -> c

\* std::transform(s.begin(), s.end(), s.begin(), ::toupper)
ToUpper(s) == [i \in 1..Len(s) |-> ToUpperChar(s[i])]

\* string::npos, size_t(-1): size_t arithmetic is modulo 2^64, so npos + 1 = 0
NPos == -1

\* size_t addition n + 1 (wraps npos to 0)
SizeSucc(n) == IF n = NPos THEN 0 ELSE n + 1

\* token.find_first_not_of(" "): 0-based index of the first non-space, or npos
FindFirstNotOf(s) ==
    IF \A i \in 1..Len(s) : s[i] = " " THEN NPos
    ELSE (CHOOSE i \in 1..Len(s) :
              s[i] # " " /\ \A j \in 1..(i - 1) : s[j] = " ") - 1

\* token.find_last_not_of(" "): 0-based index of the last non-space, or npos
FindLastNotOf(s) ==
    IF \A i \in 1..Len(s) : s[i] = " " THEN NPos
    ELSE (CHOOSE i \in 1..Len(s) :
              s[i] # " " /\ \A j \in (i + 1)..Len(s) : s[j] = " ") - 1

\* string::erase(pos, n) with pos <= size: removes min(n, size - pos)
\* characters from 0-based pos; n = npos removes to the end
Erase(s, pos, n) ==
    LET cnt == IF n = NPos \/ n > Len(s) - pos THEN Len(s) - pos ELSE n
    IN  SubSeq(s, 1, pos) \o SubSeq(s, pos + cnt + 1, Len(s))

\* enhanced variant: both erase calls on a prerequisite token
TrimEnhanced(token) ==
    LET t1 == Erase(token, 0, FindFirstNotOf(token))
    IN  Erase(t1, SizeSucc(FindLastNotOf(t1)), NPos)

\* original variant: at most one leading and one trailing space removed
TrimOriginal(token) ==
    LET t1 == IF token # <<>> /\ Head(token) = " " THEN Tail(token) ELSE token
    IN  IF t1 # <<>> /\ t1[Len(t1)] = " " THEN SubSeq(t1, 1, Len(t1) - 1)
        ELSE t1

\* ------------------------------------------------------------ stringstream

\* stringstream ss(line): next unread position (1-based), eofbit, failbit
NewStream == [pos |-> 1, eof |-> FALSE, fail |-> FALSE]

\* getline(ss, str, ','): [ok, str, ss] with str the value left in the
\* string argument, `old` being its value before the call
GetLine(line, ss, old) ==
    IF ss.eof \/ ss.fail
    THEN [ok |-> FALSE, str |-> old, ss |-> [ss EXCEPT !.fail = TRUE]]
    ELSE LET commas == {i \in ss.pos..Len(line) : line[i] = ","}
         IN  IF commas # {}
             THEN LET d == CHOOSE i \in commas : \A j \in commas : i <= j
                  IN  [ok  |-> TRUE,
                       str |-> SubSeq(line, ss.pos, d - 1),
                       ss  |-> [ss EXCEPT !.pos = d + 1]]
             ELSE [ok  |-> ss.pos <= Len(line),
                   str |-> SubSeq(line, ss.pos, Len(line)),
                   ss  |-> [pos  |-> Len(line) + 1,
                            eof  |-> TRUE,
                            fail |-> ss.pos > Len(line)]]

\* the prerequisite loop: while (getline(ss, token, ',')) { trim; push_back }
RECURSIVE ReadPrereqs(_, _, _, _)
ReadPrereqs(line, ss, enhanced, acc) ==
    LET r == GetLine(line, ss, <<>>)
    IN  IF ~r.ok THEN acc
        ELSE LET token == IF enhanced THEN TrimEnhanced(r.str)
                          ELSE TrimOriginal(r.str)
             IN  ReadPrereqs(line, r.ss, enhanced,
                             IF token # <<>> THEN Append(acc, token) ELSE acc)

\* one iteration of the line loop up to the insert: the Course parsed from
\* a non-empty line
ParseLine(line, enhanced) ==
    LET n == GetLine(line, NewStream, <<>>)
        t == GetLine(line, n.ss, <<>>)
    IN  [courseNumber  |-> n.str,
         courseTitle   |-> t.str,
         prerequisites |-> ReadPrereqs(line, t.ss, enhanced, <<>>)]

\* -------------------------------------------------------------- input sets

\* lines a source file may hold
Lines ==
    { <<>>,                                                     \* empty line
      <<"B", ",", "t">>,                                        \* B,t
      <<"A", ",", "t", ",", "B", ",", " ">>,                    \* "A,t,B, "
      <<"B", ",", "u", ",", "D", ",", "D">>,                    \* B,u,D,D
      <<"C", ",", "t", ",", " ", "A", " ", ",", ",", " ", " ", "B">>,
                                                                \* C,t, A ,,  B
      <<"A">> }                                                 \* A

\* what a file name resolves to: a file that cannot be opened, or the lines
\* of a file that can
Files ==
    UNION { [1..n -> Lines] : n \in 0..MaxFileLines }

Sources ==
    { [openable |-> FALSE, lines |-> <<>>] }
        \cup { [openable |-> TRUE, lines |-> f] : f \in Files }

\* what the user may type at "What course do you want to know about?"
CourseInputs == { <<"A">>, <<"b">>, <<"C">>, <<"D">> }

\* -------------------------------------------------------------- CourseBST

\* CourseBST(): root = nullptr
EmptyBST == [root |-> 0, nodes |-> <<>>]

\* Node(newCourse): no children
NewNode(course) == [course |-> course, left |-> 0, right |-> 0]

\* a Node*& : the root pointer, or the left/right field of node `at`
RootRef == [at |-> 0, side |-> "root"]
LeftRef(n) == [at |-> n, side |-> "left"]
RightRef(n) == [at |-> n, side |-> "right"]

Deref(t, ref) ==
    CASE ref.side = "root" -> t.root
      [] ref.side = "left" -> t.nodes[ref.at].left
      [] ref.side = "right" -> t.nodes[ref.at].right

\* node = new Node(course), node being the reference `ref`
Allocate(t, ref, course) ==
    LET n == Len(t.nodes) + 1
        nodes == Append(t.nodes, NewNode(course))
    IN  CASE ref.side = "root" -> [root |-> n, nodes |-> nodes]
          [] ref.side = "left" ->
                [t EXCEPT !.nodes = [nodes EXCEPT ![ref.at].left = n]]
          [] ref.side = "right" ->
                [t EXCEPT !.nodes = [nodes EXCEPT ![ref.at].right = n]]

\* fault: the comparison of insertNode written the other way round
InsertsLeftReversed(course, nodeCourse) ==
    StrLess(nodeCourse.courseNumber, course.courseNumber)

\* fault: the comparison of insertNode written <=, equal keys going left
InsertsLeftOrEqual(course, nodeCourse) ==
    ~StrLess(nodeCourse.courseNumber, course.courseNumber)

\* enhanced: course.courseNumber < node->course.courseNumber
InsertsLeft(course, nodeCourse) ==
    StrLess(course.courseNumber, nodeCourse.courseNumber)

\* enhanced CourseBST::insertNode
RECURSIVE insertNode(_, _, _)
insertNode(t, ref, course) ==
    LET node == Deref(t, ref)
    IN  IF node = 0 THEN Allocate(t, ref, course)
        ELSE IF InsertsLeft(course, t.nodes[node].course)
             THEN insertNode(t, LeftRef(node), course)
             ELSE insertNode(t, RightRef(node), course)

\* fault: an insert under an identifier already in the tree replaces the
\* course of the first node that carries it
InsertReplacing(t, course) ==
    LET same == {n \in 1..Len(t.nodes) :
                    t.nodes[n].course.courseNumber = course.courseNumber}
    IN  IF same = {} THEN insertNode(t, RootRef, course)
        ELSE LET n == CHOOSE i \in same : \A j \in same : i <= j
             IN  [t EXCEPT !.nodes[n].course = course]

\* enhanced CourseBST::Insert
Insert(t, course) == insertNode(t, RootRef, course)

\* enhanced CourseBST::inOrderTraversal: the courses of the nodes visited,
\* in visiting order
RECURSIVE inOrderTraversal(_, _)
inOrderTraversal(t, node) ==
    IF node = 0 THEN <<>>
    ELSE inOrderTraversal(t, t.nodes[node].left)
             \o <<t.nodes[node].course>>
             \o inOrderTraversal(t, t.nodes[node].right)

\* the line printed for a visited course: courseNumber ", " courseTitle
ListLine(course) == <<course.courseNumber, course.courseTitle>>

\* enhanced CourseBST::PrintSortedCourses: the lines printed
PrintSortedCourses(t) ==
    LET v == inOrderTraversal(t, t.root)
    IN  [i \in 1..Len(v) |-> ListLine(v[i])]

\* original CourseBST::addNode
RECURSIVE addNode(_, _, _)
addNode(t, ref, course) ==
    LET node == Deref(t, ref)
    IN  IF node = 0 THEN Allocate(t, ref, course)
        ELSE IF StrLess(course.courseNumber, t.nodes[node].course.courseNumber)
             THEN addNode(t, LeftRef(node), course)
             ELSE addNode(t, RightRef(node), course)

\* original CourseBST::Insert
OrigInsert(t, course) == addNode(t, RootRef, course)

\* original CourseBST::inOrder
RECURSIVE inOrder(_, _)
inOrder(t, node) ==
    IF node = 0 THEN <<>>
    ELSE inOrder(t, t.nodes[node].left)
             \o <<t.nodes[node].course>>
             \o inOrder(t, t.nodes[node].right)

\* original CourseBST::PrintCourseList: the lines printed
PrintCourseList(t) ==
    LET v == inOrder(t, t.root)
    IN  [i \in 1..Len(v) |-> ListLine(v[i])]

\* fault: search descending to the wrong side
RECURSIVE searchReversed(_, _, _)
searchReversed(t, node, courseNumber) ==
    IF node = 0 \/ t.nodes[node].course.courseNumber = courseNumber
    THEN node
    ELSE IF StrLess(courseNumber, t.nodes[node].course.courseNumber)
         THEN searchReversed(t, t.nodes[node].right, courseNumber)
         ELSE searchReversed(t, t.nodes[node].left, courseNumber)

\* original CourseBST::search: the node found, 0 for nullptr
RECURSIVE search(_, _, _)
search(t, node, courseNumber) ==
    IF node = 0 \/ t.nodes[node].course.courseNumber = courseNumber
    THEN node
    ELSE IF StrLess(courseNumber, t.nodes[node].course.courseNumber)
         THEN search(t, t.nodes[node].left, courseNumber)
         ELSE search(t, t.nodes[node].right, courseNumber)

\* original CourseBST::PrintCourse: "Course not found." or the course printed
PrintCourse(t, courseNumber) ==
    LET node == search(t, t.root, courseNumber)
    IN  IF node = 0 THEN [notFound |-> TRUE, details |-> <<>>]
        ELSE [notFound |-> FALSE, details |-> <<t.nodes[node].course>>]

\* ------------------------------------------------------------- hash map

\* unordered_map<string, Course> courseMap, empty
EmptyMap == [k \in {} |-> k]

\* fault: courseMap.insert({course.courseNumber, course}), which keeps an
\* existing entry
MapPutKeepFirst(m, course) ==
    [k \in DOMAIN m \cup {course.courseNumber} |->
        IF k \in DOMAIN m THEN m[k] ELSE course]

\* fault: courseMap[course.courseTitle] = course
MapPutByTitle(m, course) ==
    [k \in DOMAIN m \cup {course.courseTitle} |->
        IF k = course.courseTitle THEN course ELSE m[k]]

\* courseMap[course.courseNumber] = course
MapPut(m, course) ==
    [k \in DOMAIN m \cup {course.courseNumber} |->
        IF k = course.courseNumber THEN course ELSE m[k]]

\* enhanced PrintCourseDetails: "Course not found." or the course printed
PrintCourseDetails(courseNumber, m) ==
    IF courseNumber \notin DOMAIN m
    THEN [notFound |-> TRUE, details |-> <<>>]
    ELSE [notFound |-> FALSE, details |-> <<m[courseNumber]>>]

\* ----------------------------------------------------------- LoadCourses

\* fault: the open check left out
OpenFailedNever(src) == FALSE

\* !file.is_open()
OpenFailed(src) == ~src.openable

\* enhanced line loop: skip empty lines; parse, bst.Insert, courseMap[...] =
RECURSIVE ReadLines(_, _, _)
ReadLines(lines, t, m) ==
    IF lines = <<>> THEN [bst |-> t, courseMap |-> m]
    ELSE IF Head(lines) = <<>> THEN ReadLines(Tail(lines), t, m)
    ELSE LET course == ParseLine(Head(lines), TRUE)
         IN  ReadLines(Tail(lines), Insert(t, course), MapPut(m, course))

\* the orders in which `for (const auto& pair : courseMap)` may visit the
\* entries: unordered_map iteration order is unspecified
IterationOrders(m) ==
    { o \in [1..Cardinality(DOMAIN m) -> DOMAIN m] :
        \A i, j \in DOMAIN o : i # j => o[i] # o[j] }

\* fault: the inner validation loop leaving at the first missing prerequisite
EntryWarningsFirstOnly(owner, prereqs, m) ==
    LET missing == {i \in 1..Len(prereqs) : prereqs[i] \notin DOMAIN m}
    IN  IF missing = {} THEN <<>>
        ELSE << <<owner, prereqs[CHOOSE i \in missing :
                                    \A j \in missing : i <= j]>> >>

\* inner validation loop for one entry: a warning <<owner, prereq>> for each
\* prerequisite not found in the map
RECURSIVE EntryWarnings(_, _, _)
EntryWarnings(owner, prereqs, m) ==
    IF prereqs = <<>> THEN <<>>
    ELSE (IF Head(prereqs) \notin DOMAIN m
          THEN << <<owner, Head(prereqs)>> >> ELSE <<>>)
             \o EntryWarnings(owner, Tail(prereqs), m)

\* outer validation loop, the entries visited in `order`
RECURSIVE ValidatePrerequisites(_, _)
ValidatePrerequisites(m, order) ==
    IF order = <<>> THEN <<>>
    ELSE EntryWarnings(Head(order), m[Head(order)].prerequisites, m)
             \o ValidatePrerequisites(m, Tail(order))

\* enhanced LoadCourses: the possible results (one per iteration order)
LoadCourses(src, t, m) ==
    IF OpenFailed(src)
    THEN { [bst |-> t, courseMap |-> m, openError |-> TRUE, warnings |-> <<>>] }
    ELSE LET r == ReadLines(src.lines, t, m)
         IN  { [bst |-> r.bst, courseMap |-> r.courseMap, openError |-> FALSE,
                warnings |-> ValidatePrerequisites(r.courseMap, o)] :
                   o \in IterationOrders(r.courseMap) }

\* original line loop
RECURSIVE OrigReadLines(_, _)
OrigReadLines(lines, t) ==
    IF lines = <<>> THEN t
    ELSE IF Head(lines) = <<>> THEN OrigReadLines(Tail(lines), t)
    ELSE OrigReadLines(Tail(lines),
                       OrigInsert(t, ParseLine(Head(lines), FALSE)))

\* original LoadCourses
OrigLoadCourses(src, t) ==
    IF OpenFailed(src) THEN [bst |-> t, openError |-> TRUE]
    ELSE [bst |-> OrigReadLines(src.lines, t), openError |-> FALSE]

\* ------------------------------------------------------------------ state

VARIABLES
    program,     \* which main() runs: "original" or "enhanced"
    pc,          \* "menu" inside while (true), "exited" after return 0
    bst,         \* main's CourseBST bst
    courseMap,   \* enhanced main's courseMap
    dataLoaded,  \* enhanced main's dataLoaded
    out,         \* what the last menu action printed
    retained,    \* history: the non-empty lines read by the loads so far
    opened,      \* history: some load has opened its source
    lastOpen     \* history: "none", or how the latest load's open went:
                 \* "open" or "failed"

vars ==
    <<program, pc, bst, courseMap, dataLoaded, out, retained, opened, lastOpen>>

\* the output of one menu action
Out(action) ==
    [action |-> action, openError |-> FALSE, warnings |-> <<>>,
     listed |-> <<>>, notFound |-> FALSE, details |-> <<>>]

\* the non-empty lines of a file
NonEmpty(lines) == SelectSeq(lines, LAMBDA l : l # <<>>)

Init ==
    /\ program \in {"original", "enhanced"}
    /\ pc = "menu"
    /\ bst = EmptyBST
    /\ courseMap = EmptyMap
    /\ dataLoaded = FALSE
    /\ out = Out("Welcome")
    /\ retained = <<>>
    /\ opened = FALSE
    /\ lastOpen = "none"

\* enhanced main, case 1
EnhancedLoad(src) ==
    /\ program = "enhanced" /\ pc = "menu"
    /\ Len(retained) + Len(NonEmpty(src.lines)) <= MaxRecords
    /\ \E r \in LoadCourses(src, bst, courseMap) :
          /\ bst' = r.bst
          /\ courseMap' = r.courseMap
          /\ out' = [Out("LoadCourses") EXCEPT !.openError = r.openError,
                                               !.warnings = r.warnings]
    /\ dataLoaded' = TRUE
    /\ retained' = retained \o NonEmpty(src.lines)
    /\ opened' = (opened \/ src.openable)
    /\ lastOpen' = IF src.openable THEN "open" ELSE "failed"
    /\ UNCHANGED <<program, pc>>

\* enhanced main, case 2
EnhancedList ==
    /\ program = "enhanced" /\ pc = "menu"
    /\ out' = IF ~dataLoaded THEN Out("NoDataLoaded")
              ELSE [Out("PrintSortedCourses") EXCEPT
                        !.listed = PrintSortedCourses(bst)]
    /\ UNCHANGED <<program, pc, bst, courseMap, dataLoaded, retained, opened,
                   lastOpen>>

\* enhanced main, case 3
EnhancedLookup(courseInput) ==
    /\ program = "enhanced" /\ pc = "menu"
    /\ out' = IF ~dataLoaded THEN Out("NoDataLoaded")
              ELSE LET r == PrintCourseDetails(ToUpper(courseInput), courseMap)
                   IN  [Out("PrintCourseDetails") EXCEPT
                            !.notFound = r.notFound, !.details = r.details]
    /\ UNCHANGED <<program, pc, bst, courseMap, dataLoaded, retained, opened,
                   lastOpen>>

\* original main, case 1
OriginalLoad(src) ==
    /\ program = "original" /\ pc = "menu"
    /\ Len(retained) + Len(NonEmpty(src.lines)) <= MaxRecords
    /\ LET r == OrigLoadCourses(src, bst)
       IN  /\ bst' = r.bst
           /\ out' = [Out("LoadCourses") EXCEPT !.openError = r.openError]
    /\ retained' = retained \o NonEmpty(src.lines)
    /\ opened' = (opened \/ src.openable)
    /\ lastOpen' = IF src.openable THEN "open" ELSE "failed"
    /\ UNCHANGED <<program, pc, courseMap, dataLoaded>>

\* original main, case 2
OriginalList ==
    /\ program = "original" /\ pc = "menu"
    /\ out' = [Out("PrintCourseList") EXCEPT !.listed = PrintCourseList(bst)]
    /\ UNCHANGED <<program, pc, bst, courseMap, dataLoaded, retained, opened,
                   lastOpen>>

\* original main, case 3
OriginalLookup(courseInput) ==
    /\ program = "original" /\ pc = "menu"
    /\ LET r == PrintCourse(bst, ToUpper(courseInput))
       IN  out' = [Out("PrintCourse") EXCEPT
                       !.notFound = r.notFound, !.details = r.details]
    /\ UNCHANGED <<program, pc, bst, courseMap, dataLoaded, retained, opened,
                   lastOpen>>

\* either main: non-numeric input, or the default branch of the switch
InvalidChoice ==
    /\ pc = "menu"
    /\ out' = Out("Invalid")
    /\ UNCHANGED <<program, pc, bst, courseMap, dataLoaded, retained, opened,
                   lastOpen>>

\* either main, case 9: return 0
Exit ==
    /\ pc = "menu"
    /\ pc' = "exited"
    /\ out' = Out("Exit")
    /\ UNCHANGED <<program, bst, courseMap, dataLoaded, retained, opened, lastOpen>>

Next ==
    \/ \E src \in Sources : EnhancedLoad(src)
    \/ EnhancedList
    \/ \E courseInput \in CourseInputs : EnhancedLookup(courseInput)
    \/ \E src \in Sources : OriginalLoad(src)
    \/ OriginalList
    \/ \E courseInput \in CourseInputs : OriginalLookup(courseInput)
    \/ InvalidChoice
    \/ Exit

Spec == Init /\ [][Next]_vars

\* ------------------------------------------------- vocabulary of the claims

\* the first field of a line: what precedes its first comma
FirstField(line) ==
    IF \A i \in 1..Len(line) : line[i] # "," THEN line
    ELSE SubSeq(line, 1,
                (CHOOSE i \in 1..Len(line) :
                    line[i] = "," /\ \A j \in 1..(i - 1) : line[j] # ",") - 1)

\* the record the running variant builds from a retained line
RecordOf(line) == ParseLine(line, program = "enhanced")

\* the identifiers carried by the lines loaded so far
LoadedIds == { FirstField(retained[i]) : i \in 1..Len(retained) }

\* the latest retained line whose first field is x (x in LoadedIds)
LastLineOf(x) ==
    retained[CHOOSE i \in 1..Len(retained) :
                 /\ FirstField(retained[i]) = x
                 /\ \A j \in (i + 1)..Len(retained) : FirstField(retained[j]) # x]

\* listSorted(): the courses visited by the running variant's traversal
listSorted ==
    IF program = "enhanced" THEN inOrderTraversal(bst, bst.root)
    ELSE inOrder(bst, bst.root)

\* how often x occurs in the sequence s
Occurrences(s, x) == Cardinality({i \in 1..Len(s) : s[i] = x})

\* the elements of s whose courseNumber is x, in order
WithId(s, x) == SelectSeq(s, LAMBDA c : c.courseNumber = x)

\* the records of the retained lines, in loading order
Inserted == [i \in 1..Len(retained) |-> RecordOf(retained[i])]

\* ---------------------------------------------------------------- claims

\* C1: after any sequence of inserts, listSorted() visits each inserted
\* record exactly once (as many visits of a record as inserts of it), the
\* visited identifiers are non-decreasing in lexicographic order, and an
\* empty index lists nothing.
C1_ListSortedOrdered ==
    LET v == listSorted
    IN  /\ Len(v) = Len(Inserted)
        /\ \A i \in 1..Len(Inserted) :
              Occurrences(v, Inserted[i]) = Occurrences(Inserted, Inserted[i])
        /\ \A i \in 1..(Len(v) - 1) :
              ~StrLess(v[i + 1].courseNumber, v[i].courseNumber)
        /\ (retained = <<>> => v = <<>>)

\* three records with distinct identifiers, inserted out of order, are listed
C1_Witness ==
    /\ program = "enhanced"
    /\ out.action = "PrintSortedCourses"
    /\ Len(out.listed) = 3
    /\ Cardinality(LoadedIds) = 3
    /\ \E i \in 1..(Len(retained) - 1) :
          StrLess(FirstField(retained[i + 1]), FirstField(retained[i]))

\* C2: for every identifier X carried by a loaded line, the lookup of X in
\* the hash map finds the record of the latest loaded line carrying X.
C2_LastWriteWins ==
    program = "enhanced" =>
        \A x \in LoadedIds :
            LET r == PrintCourseDetails(x, courseMap)
            IN  /\ ~r.notFound
                /\ r.details = <<RecordOf(LastLineOf(x))>>

\* a lookup prints the later of two different records loaded under one
\* identifier
C2_Witness ==
    /\ program = "enhanced"
    /\ out.action = "PrintCourseDetails"
    /\ ~out.notFound
    /\ \E i, j \in 1..Len(retained) :
          /\ i < j
          /\ FirstField(retained[i]) = FirstField(retained[j])
          /\ RecordOf(retained[i]) # RecordOf(retained[j])
          /\ out.details = <<RecordOf(retained[j])>>
          /\ LastLineOf(FirstField(retained[j])) = retained[j]

\* C3: the records sharing an identifier are visited by listSorted() as
\* one consecutive run, in the order of their insertion, none of them
\* replaced or removed.
C3_DuplicatesInInsertionOrder ==
    LET v == listSorted
    IN  /\ \A x \in LoadedIds : WithId(v, x) = WithId(Inserted, x)
        /\ \A i, k \in 1..Len(v) :
              (i < k /\ v[i].courseNumber = v[k].courseNumber) =>
                  \A j \in i..k : v[j].courseNumber = v[i].courseNumber

\* two different records under one identifier were inserted with a record
\* of another identifier between them, and the list was printed
C3_Witness ==
    /\ program = "enhanced"
    /\ out.action = "PrintSortedCourses"
    /\ \E i, j, k \in 1..Len(retained) :
          /\ i < j /\ j < k
          /\ FirstField(retained[i]) = FirstField(retained[k])
          /\ FirstField(retained[j]) # FirstField(retained[i])
          /\ RecordOf(retained[i]) # RecordOf(retained[k])

\* C4: a load whose source cannot be opened prints the error, inserts
\* nothing (both indexes are exactly as before) and emits no warning.
C4_FailedLoadChangesNothing ==
    [][(out'.action = "LoadCourses" /\ lastOpen' = "failed") =>
          /\ out'.openError
          /\ bst' = bst
          /\ courseMap' = courseMap
          /\ retained' = retained
          /\ out'.warnings = <<>>]_vars

\* the records of the hash map with a prerequisite that is not a key
DanglingOwners ==
    { k \in DOMAIN courseMap :
        \E i \in 1..Len(courseMap[k].prerequisites) :
            courseMap[k].prerequisites[i] \notin DOMAIN courseMap }

\* a load has failed on a catalog that holds records, one of them with a
\* dangling prerequisite
C4_Witness ==
    /\ program = "enhanced"
    /\ out.action = "LoadCourses"
    /\ lastOpen = "failed"
    /\ out.openError
    /\ bst.nodes # <<>>
    /\ DanglingOwners # {}

\* how many warnings the latest action emitted for the pair
WarningCount(owner, missing) == Occurrences(out.warnings, <<owner, missing>>)

\* the identifiers that occur anywhere: as a loaded identifier, as a
\* prerequisite of a loaded record, or in a warning
Mentioned ==
    LoadedIds
        \cup UNION { { Inserted[i].prerequisites[j] :
                          j \in 1..Len(Inserted[i].prerequisites) } :
                     i \in 1..Len(Inserted) }
        \cup UNION { { out.warnings[i][1], out.warnings[i][2] } :
                     i \in 1..Len(out.warnings) }

\* some loaded record of owner lists missing, which no loaded line carries
DanglingPair(owner, missing) ==
    /\ missing \notin LoadedIds
    /\ \E i \in 1..Len(Inserted) :
          /\ Inserted[i].courseNumber = owner
          /\ \E j \in 1..Len(Inserted[i].prerequisites) :
                Inserted[i].prerequisites[j] = missing

\* the latest action is a load of the enhanced variant that opened its source
AfterLoad ==
    program = "enhanced" /\ out.action = "LoadCourses" /\ lastOpen = "open"

\* C5 as stated: a load emits exactly one warning for each (owner, missing)
\* pair of a loaded record with a dangling prerequisite, and none otherwise.
C5_OneWarningPerPair ==
    AfterLoad =>
        \A owner, missing \in Mentioned :
            WarningCount(owner, missing) =
                IF DanglingPair(owner, missing) THEN 1 ELSE 0

\* C5 as amended: a load that opens its source emits, for each loaded
\* identifier owner and each identifier missing that no loaded line carries
\* (counting the lines of earlier loads), as many warnings (owner, missing)
\* as missing occurs in the prerequisite list of the latest loaded line of
\* owner, and no other warning.
C5_OneWarningPerDanglingEntry ==
    AfterLoad =>
        \A owner, missing \in Mentioned :
            WarningCount(owner, missing) =
                IF owner \in LoadedIds /\ missing \notin LoadedIds
                THEN Occurrences(RecordOf(LastLineOf(owner)).prerequisites,
                                 missing)
                ELSE 0

\* a load has emitted two warnings for one pair and one warning for another
C5_Witness ==
    /\ AfterLoad
    /\ \E owner, missing \in Mentioned : WarningCount(owner, missing) = 2
    /\ \E owner, missing \in Mentioned : WarningCount(owner, missing) = 1

\* C6: an identifier is visited by listSorted() if and only if its lookup
\* in the hash map succeeds.
C6_SameIdentifiers ==
    program = "enhanced" =>
        LET listed == { listSorted[i].courseNumber : i \in 1..Len(listSorted) }
        IN  \A x \in listed \cup DOMAIN courseMap \cup Mentioned :
                x \in listed <=> ~PrintCourseDetails(x, courseMap).notFound

\* after a load the tree holds more records than the hash map has keys
C6_Witness ==
    /\ AfterLoad
    /\ Len(listSorted) > Cardinality(DOMAIN courseMap)
    /\ Cardinality(DOMAIN courseMap) >= 2

\* C7 as stated: in the enhanced menu loop the list and the lookup are
\* reached only after a load that opened its source.
C7_QueriesOnlyAfterData ==
    (program = "enhanced"
        /\ out.action \in {"PrintSortedCourses", "PrintCourseDetails"})
    => opened

\* the lookup of x by the running variant reports "Course not found."
NotFound(x) ==
    IF program = "enhanced" THEN PrintCourseDetails(x, courseMap).notFound
    ELSE PrintCourse(bst, x).notFound

\* C8: the lookup of X is NotFound if and only if no retained line has X
\* as its first field, through the hash map and through the tree search.
C8_NotFoundIffNeverLoaded ==
    \A x \in Mentioned \cup { ToUpper(c) : c \in CourseInputs } :
        NotFound(x) <=> x \notin LoadedIds

\* the tree search of the original variant has found a record that lies
\* below the root, and missed an identifier absent from a populated tree
C8_Witness ==
    /\ program = "original"
    /\ out.action = "PrintCourse"
    /\ ~out.notFound
    /\ out.details # <<bst.nodes[bst.root].course>>
    /\ \E x \in Mentioned : NotFound(x)

\* the latest of `lines` whose first field is x
Latest(lines, x) ==
    lines[CHOOSE i \in 1..Len(lines) :
              /\ FirstField(lines[i]) = x
              /\ \A j \in (i + 1)..Len(lines) : FirstField(lines[j]) # x]

\* C9: a load that opens its source adds one visited record per retained
\* line and keeps every record listed before; the hash map holds, per
\* identifier, the record of the latest line carrying it over all loads.
C9_LoadIsAdditive ==
    [][(program = "enhanced" /\ out'.action = "LoadCourses"
            /\ lastOpen' = "open") =>
          LET added == SubSeq(retained', Len(retained) + 1, Len(retained'))
              ids == { FirstField(added[i]) : i \in 1..Len(added) }
              before == listSorted
              after == listSorted'
          IN  /\ Len(after) = Len(before) + Len(added)
              /\ Len(after) = Len(retained')
              /\ \A i \in 1..Len(before) :
                    Occurrences(after, before[i])
                        >= Occurrences(before, before[i])
              /\ DOMAIN courseMap' = DOMAIN courseMap \cup ids
              /\ \A x \in DOMAIN courseMap' :
                    courseMap'[x] = IF x \in ids
                                    THEN ParseLine(Latest(added, x), TRUE)
                                    ELSE courseMap[x]]_vars

\* a second load has added to a populated catalog a record under an
\* identifier the first load had already loaded
C9_Witness ==
    /\ AfterLoad
    /\ Len(retained) > MaxFileLines
    /\ Len(listSorted) = Len(retained)
    /\ Cardinality(DOMAIN courseMap) < Len(retained)

\* the fields of a line: the stretches between its commas
RECURSIVE Fields(_)
Fields(s) ==
    IF \A i \in 1..Len(s) : s[i] # "," THEN <<s>>
    ELSE LET c == CHOOSE i \in 1..Len(s) :
                      s[i] = "," /\ \A j \in 1..(i - 1) : s[j] # ","
         IN  <<SubSeq(s, 1, c - 1)>> \o Fields(SubSeq(s, c + 1, Len(s)))

\* s without its leading and trailing space characters
Stripped(s) ==
    LET keep == {i \in 1..Len(s) : s[i] # " "}
    IN  IF keep = {} THEN <<>>
        ELSE SubSeq(s, CHOOSE i \in keep : \A j \in keep : i <= j,
                       CHOOSE i \in keep : \A j \in keep : i >= j)

\* the prerequisites a line is to yield: its fields from the third on,
\* stripped, the empty ones dropped, in order
ExpectedPrerequisites(line) ==
    LET f == Fields(line)
        t == [i \in 1..(Len(f) - 2) |-> Stripped(f[i + 2])]
    IN  SelectSeq(t, LAMBDA x : x # <<>>)

\* C10 as stated: the prerequisites stored for every retained line are its
\* fields from the third on with all leading and trailing spaces removed,
\* the empty ones dropped, in the order of the line.
C10_PrerequisitesStripped ==
    /\ Len(bst.nodes) = Len(retained)
    /\ \A i \in 1..Len(bst.nodes) :
          bst.nodes[i].course.prerequisites
              = ExpectedPrerequisites(retained[i])

\* C10 for the enhanced variant alone
C10_EnhancedStripped ==
    program = "enhanced" => C10_PrerequisitesStripped

====
